---- MODULE Spec2Model ----
(***************************************************************************)
(* Job-status partial-update protocol of the MVP developer toolkit:        *)
(*   - docker/scripts/update-job-status.py : update_job_status (CLI)       *)
(*   - lambda/update-mvp-status.py : lambda_handler, update_job_record,    *)
(*     update_status_record                                                *)
(* Python values are modelled as options: None is the empty tuple and a    *)
(* value v is <<v>>.  An attribute of a stored item is an option too: the  *)
(* empty tuple is an attribute the item does not have.                     *)
(***************************************************************************)
EXTENDS Integers, Sequences, FiniteSets, TLC

VARIABLES
    now,            \* the UTC clock, in whole time units
    jobs_table,     \* the item of the job in the jobs table, attribute path -> option
    status_table,   \* the status table, key -> item (DOMAIN = keys stored)
    upc,            \* updater process -> "start" | "call" | "done"
    uargs,          \* updater process -> the arguments of its invocation
    ukwargs,        \* updater process -> the update request it built
    utime,          \* updater process -> the clock value its request carries
    ucalls,         \* updater process -> number of update_item calls it made
    uresult,        \* updater process -> "none" | "ok" | "raised"
    lpc,            \* lambda_handler position
    nrecords,       \* number of records of the event being handled
    idx,            \* index of the record being handled (0-based)
    record,         \* the record the loop read last
    message,        \* the parsed message of the record being handled
    result,         \* statusCode returned by lambda_handler (0: not returned)
    log,            \* history of what the handler did with each record
    prev_job,       \* history: the job record before its last applied update
    applied         \* history: the updates applied to the job record, in order

vars == <<now, jobs_table, status_table, upc, uargs, ukwargs, utime, ucalls,
          uresult, lpc, nrecords, idx, record, message, result, log, prev_job,
          applied>>

updater_vars == <<upc, uargs, ukwargs, utime, ucalls, uresult>>
lambda_vars == <<lpc, nrecords, idx, record, message, result, log>>

----------------------------------------------------------------------------
(* Bounds *)

MaxTime == 2
NumUpdaters == 2
MaxBatch == 2

----------------------------------------------------------------------------
(* Python values *)

None == <<>>
Some(v) == <<v>>

\* truth value of an optional string: None and "" are false
Truthy(x) == x # None /\ x[1] # ""

\* x or default
Or(x, default) == IF Truthy(x) THEN x[1] ELSE default

\* datetime.utcnow().isoformat()
isoformat(t) == "T" \o ToString(t)

\* json.dumps of the error dictionary
json_dumps(d) ==
    "{timestamp: " \o d.timestamp \o ", message: " \o d.message
        \o ", step: " \o d.step \o "}"

----------------------------------------------------------------------------
(* The store: an item is a function from attribute paths to options *)

FlatAttrs ==
    {"updatedAt", "status", "startedAt", "completedAt", "currentStep",
     "progress", "githubRepo", "repoName", "stagingUrl", "vercelUrl",
     "lastError"}

NestedAttrs ==
    {"timestamps.completedAt", "urls.codeRepository", "urls.production",
     "urls.staging", "resources.batchJobId", "resources.vercel.projectId",
     "resources.vercel.deploymentId", "errors"}

Attrs == FlatAttrs \cup NestedAttrs

NoParts == [p \in {} |-> <<>>]

\* one "path = :value" part of a SET update expression
Set(path, v) == path :> <<"SET", v>>

\* "path = list_append(if_not_exists(path, :empty_list), :list)"
ListAppend(path, empty_list, list) == path :> <<"LIST_APPEND", empty_list, list>>

\* faulty variant: the update replaces the item, as put_item would
update_item_replacing(item, parts) ==
    [a \in Attrs |->
        IF a \in DOMAIN parts
        THEN IF parts[a][1] = "SET"
             THEN Some(parts[a][2])
             ELSE Some((IF item[a] = None THEN parts[a][2] ELSE item[a][1])
                       \o parts[a][3])
        ELSE None]

\* table.update_item: every part is applied, every other attribute is kept
update_item(item, parts) ==
    [a \in Attrs |->
        IF a \in DOMAIN parts
        THEN IF parts[a][1] = "SET"
             THEN Some(parts[a][2])
             ELSE Some((IF item[a] = None THEN parts[a][2] ELSE item[a][1])
                       \o parts[a][3])
        ELSE item[a]]

----------------------------------------------------------------------------
(* update-job-status.py *)

Updaters == 1..NumUpdaters

\* faulty variant: updatedAt is not set on its own, only optional fields are
UpdatedAtPartOptional(t) == NoParts

\* "Always update the updatedAt timestamp"
UpdatedAtPart(t) == Set("updatedAt", isoformat(t))

\* faulty variant: the elif read as an else, completedAt for every other status
StatusPartsElse(status, t) ==
    IF Truthy(status)
    THEN Set("status", status[1])
         @@ (IF status[1] = "IN_PROGRESS" THEN Set("startedAt", isoformat(t))
             ELSE Set("completedAt", isoformat(t)))
    ELSE NoParts

StatusParts(status, t) ==
    IF Truthy(status)
    THEN Set("status", status[1])
         @@ (IF status[1] = "IN_PROGRESS" THEN Set("startedAt", isoformat(t))
             ELSE IF status[1] = "COMPLETED" THEN Set("completedAt", isoformat(t))
             ELSE NoParts)
    ELSE NoParts

StepPart(step) == IF Truthy(step) THEN Set("currentStep", step[1]) ELSE NoParts

\* int(progress) of an int is that int
ProgressPart(progress) ==
    IF progress # None THEN Set("progress", progress[1]) ELSE NoParts

UrlParts(a) ==
    (IF Truthy(a.repo_url) THEN Set("githubRepo", a.repo_url[1]) ELSE NoParts)
    @@ (IF Truthy(a.repo_name) THEN Set("repoName", a.repo_name[1]) ELSE NoParts)
    @@ (IF Truthy(a.staging_url) THEN Set("stagingUrl", a.staging_url[1]) ELSE NoParts)
    @@ (IF Truthy(a.production_url) THEN Set("vercelUrl", a.production_url[1]) ELSE NoParts)

ErrorPart(error, step, t) ==
    IF Truthy(error)
    THEN Set("lastError",
             json_dumps([timestamp |-> isoformat(t), message |-> error[1],
                         step |-> Or(step, "unknown")]))
    ELSE NoParts

\* the update expression update_job_status accumulates
update_expression_parts(a, t) ==
    UpdatedAtPart(t) @@ StatusParts(a.status, t) @@ StepPart(a.step)
    @@ ProgressPart(a.progress) @@ UrlParts(a) @@ ErrorPart(a.error, a.step, t)

\* the command line's optional arguments
StatusArgs == {None, Some(""), Some("IN_PROGRESS"), Some("COMPLETED"), Some("FAILED")}
StepArgs == {None, Some(""), Some("build")}
ProgressArgs == {None, Some(0), Some(50)}
ErrorArgs == {None, Some(""), Some("boom")}

AllArgs ==
    [status : StatusArgs, step : StepArgs, progress : ProgressArgs,
     repo_url : {None, Some("repo")}, repo_name : {None, Some("name")},
     staging_url : {None, Some("stage")}, production_url : {None, Some("prod")},
     error : ErrorArgs]

NoArgs ==
    [status |-> None, step |-> None, progress |-> None, repo_url |-> None,
     repo_name |-> None, staging_url |-> None, production_url |-> None,
     error |-> None]

\* a few invocations that overlap on some fields and not on others
FewArgs ==
    {NoArgs,
     [NoArgs EXCEPT !.status = Some("IN_PROGRESS")],
     [NoArgs EXCEPT !.status = Some("COMPLETED"), !.progress = Some(50)],
     [NoArgs EXCEPT !.step = Some("build"), !.progress = Some(0)],
     [NoArgs EXCEPT !.error = Some("boom"), !.production_url = Some("prod")],
     [NoArgs EXCEPT !.status = Some("FAILED"), !.error = Some("boom"),
                    !.step = Some("build")]}

----------------------------------------------------------------------------
(* lambda/update-mvp-status.py *)

\* message.get(key, default)
Get(x, default) == IF x # None THEN x ELSE default

NoMessage ==
    [jobId |-> None, status |-> None, repoUrl |-> None, productionUrl |-> None,
     stagingUrl |-> None, batchJobId |-> None, vercelProjectId |-> None,
     vercelDeploymentId |-> None, projectId |-> None, userId |-> None,
     businessName |-> None, error |-> None, currentStep |-> None]

JobMessage == [NoMessage EXCEPT !.jobId = Some("j1")]

\* the payloads json.loads can return; Some("") stands for a key that is
\* present with a false value ("" or null)
Messages ==
    {NoMessage, [NoMessage EXCEPT !.jobId = Some(""), !.status = Some("completed")],
     [JobMessage EXCEPT !.status = Some("failed"), !.error = Some("")],
     [JobMessage EXCEPT !.status = Some(""), !.error = Some("boom")],
     [JobMessage EXCEPT !.status = Some("failed"), !.error = Some("boom"),
                        !.currentStep = Some("")],
     [JobMessage EXCEPT !.projectId = Some("p1"), !.businessName = Some("Acme")]}
    \cup {[JobMessage EXCEPT !.status = s, !.error = e, !.currentStep = c] :
            s \in {None, Some("completed"), Some("failed")},
            e \in {None, Some("boom")},
            c \in {None, Some("deploy")}}
    \cup {[JobMessage EXCEPT !.projectId = p, !.userId = u, !.businessName = u] :
            p \in {Some(""), Some("p1")}, u \in {None, Some("u1")}}
    \cup {[JobMessage EXCEPT !.status = Some("completed"), !.repoUrl = r,
                             !.productionUrl = p,
                             !.stagingUrl = IF Truthy(r) THEN Some("stage") ELSE r] :
            r \in {None, Some(""), Some("repo")}, p \in {None, Some("prod")}}
    \cup {[JobMessage EXCEPT !.batchJobId = Some("b1"), !.vercelProjectId = v,
                             !.vercelDeploymentId = Some("d1"),
                             !.stagingUrl = Some("stage")] :
            v \in {None, Some("v1")}}

\* the records of event['Records']: EventSource is None when the record has
\* no such key, Message is None when the payload is not a JSON object
Records ==
    {[EventSource |-> None, Message |-> None],
     [EventSource |-> Some("aws:sqs"), Message |-> None],
     [EventSource |-> Some("aws:sns"), Message |-> None]}
    \cup {[EventSource |-> Some("aws:sns"), Message |-> Some(m)] : m \in Messages}

\* a few records: one of each kind the loop tells apart
FewRecords ==
    {[EventSource |-> None, Message |-> None],
     [EventSource |-> Some("aws:sqs"), Message |-> None],
     [EventSource |-> Some("aws:sns"), Message |-> Some(NoMessage)],
     [EventSource |-> Some("aws:sns"),
      Message |-> Some([JobMessage EXCEPT !.productionUrl = Some("prod")])],
     [EventSource |-> Some("aws:sns"),
      Message |-> Some([JobMessage EXCEPT !.status = Some("failed"),
                                          !.error = Some("boom"),
                                          !.projectId = Some("")])]}

\* faulty variant: message['jobId'] for message.get('jobId'), a missing key raises
classify_strict(r) ==
    IF r.EventSource = None THEN "raise"
    ELSE IF r.EventSource[1] # "aws:sns" THEN "skip_source"
    ELSE IF r.Message = None THEN "raise"
    ELSE IF r.Message[1].jobId = None THEN "raise"
    ELSE IF ~Truthy(r.Message[1].jobId) THEN "skip_no_job_id"
    ELSE "process"

\* what the loop body does with a record before it touches a table
classify(r) ==
    IF r.EventSource = None THEN "raise"
    ELSE IF r.EventSource[1] # "aws:sns" THEN "skip_source"
    ELSE IF r.Message = None THEN "raise"
    ELSE IF ~Truthy(r.Message[1].jobId) THEN "skip_no_job_id"
    ELSE "process"

\* faulty variant: the status table is written first
StepAfterSwapped(step) ==
    IF step = "begin" THEN "status" ELSE IF step = "status" THEN "job" ELSE "loop"

\* the order of the two writes of one record, and the way back to the loop
StepAfter(step) ==
    IF step = "begin" THEN "job" ELSE IF step = "job" THEN "status" ELSE "loop"

\* faulty variant: the except branch reports success
StatusCodeOk == 200

\* faulty variant: the except branch reports success
StatusCodeErrorSwallowed == StatusCodeOk

StatusCodeError == 500

CompletedParts(status) ==
    IF status = "completed"
    THEN Set("progress", 100) @@ Set("currentStep", "COMPLETED")
    ELSE NoParts

MessageUrlParts(m) ==
    (IF Truthy(m.repoUrl) THEN Set("urls.codeRepository", m.repoUrl[1]) ELSE NoParts)
    @@ (IF Truthy(m.productionUrl) THEN Set("urls.production", m.productionUrl[1]) ELSE NoParts)
    @@ (IF Truthy(m.stagingUrl) THEN Set("urls.staging", m.stagingUrl[1]) ELSE NoParts)

ResourceParts(m) ==
    (IF Truthy(m.batchJobId) THEN Set("resources.batchJobId", m.batchJobId[1]) ELSE NoParts)
    @@ (IF Truthy(m.vercelProjectId)
        THEN Set("resources.vercel.projectId", m.vercelProjectId[1]) ELSE NoParts)
    @@ (IF Truthy(m.vercelDeploymentId)
        THEN Set("resources.vercel.deploymentId", m.vercelDeploymentId[1]) ELSE NoParts)

\* faulty variant: the errors attribute is overwritten with the new entry
ErrorsPartOverwrite(m, status, t) ==
    IF status = "failed" /\ Truthy(m.error)
    THEN Set("errors",
             <<[timestamp |-> isoformat(t), message |-> m.error[1],
                step |-> Get(m.currentStep, Some("unknown"))[1]]>>)
    ELSE NoParts

ErrorsPart(m, status, t) ==
    IF status = "failed" /\ Truthy(m.error)
    THEN ListAppend("errors", <<>>,
                    <<[timestamp |-> isoformat(t), message |-> m.error[1],
                       step |-> Get(m.currentStep, Some("unknown"))[1]]>>)
    ELSE NoParts

\* the update expression update_job_record accumulates
job_record_parts(m, t) ==
    LET status == Get(m.status, Some("completed"))[1]
    IN  Set("status", status) @@ Set("timestamps.completedAt", isoformat(t))
        @@ CompletedParts(status) @@ MessageUrlParts(m) @@ ResourceParts(m)
        @@ ErrorsPart(m, status, t)

\* 30 days, in the seconds the clock counts
ttl_seconds == 30 * 24 * 60 * 60

\* project_id of update_status_record
project_id(m) == Get(m.projectId, m.jobId)

\* the item update_status_record puts; userId and businessName are None
\* when the item has no such attribute
status_record(m, t) ==
    [projectId |-> project_id(m)[1],
     jobId |-> m.jobId[1],
     status |-> Get(m.status, Some("completed"))[1],
     updatedAt |-> isoformat(t),
     urls |-> [production |-> m.productionUrl, staging |-> m.stagingUrl,
               repository |-> m.repoUrl],
     userId |-> IF Truthy(m.userId) THEN m.userId ELSE None,
     businessName |-> IF Truthy(m.businessName) THEN m.businessName ELSE None,
     ttl |-> t + ttl_seconds]

\* status_table.put_item: the item replaces whatever its key held
put_item(table, item) ==
    [k \in DOMAIN table \cup {item.projectId} |->
        IF k = item.projectId THEN item ELSE table[k]]

----------------------------------------------------------------------------
(* Initial state: the job record as the upstream component that creates it *)
(* left it, either freshly created or with every attribute filled in       *)

FreshRecord ==
    [a \in Attrs |->
        IF a = "status" THEN Some("PENDING")
        ELSE IF a = "updatedAt" THEN Some(isoformat(0))
        ELSE None]

OldRecord ==
    [a \in Attrs |->
        IF a \in {"updatedAt", "startedAt", "completedAt", "timestamps.completedAt"}
            THEN Some(isoformat(0))
        ELSE IF a = "progress" THEN Some(7)
        ELSE IF a = "errors"
            THEN Some(<<[timestamp |-> isoformat(0), message |-> "old", step |-> "old"]>>)
        ELSE Some("old")]

OldStatusItem(k) ==
    [projectId |-> k, jobId |-> "j1", status |-> "old", updatedAt |-> isoformat(0),
     urls |-> [production |-> Some("old"), staging |-> None, repository |-> None],
     userId |-> Some("olduser"), businessName |-> Some("oldbiz"),
     ttl |-> ttl_seconds]

NoItems == [k \in {} |-> <<>>]
OldItems == [k \in {"j1", "p1"} |-> OldStatusItem(k)]

Init ==
    /\ now = 1
    /\ \E old \in BOOLEAN :
        /\ jobs_table = IF old THEN OldRecord ELSE FreshRecord
        /\ status_table = IF old THEN OldItems ELSE NoItems
        /\ applied = <<[kind |-> IF old THEN "created_full" ELSE "created_fresh",
                        proc |-> 0, args |-> NoArgs, time |-> 0]>>
    /\ prev_job = jobs_table
    /\ upc = [p \in Updaters |-> "start"]
    /\ uargs = [p \in Updaters |-> NoArgs]
    /\ ukwargs = [p \in Updaters |-> NoParts]
    /\ utime = [p \in Updaters |-> 0]
    /\ ucalls = [p \in Updaters |-> 0]
    /\ uresult = [p \in Updaters |-> "none"]
    /\ lpc = "idle"
    /\ nrecords = 0
    /\ idx = 0
    /\ record = [EventSource |-> None, Message |-> None]
    /\ message = NoMessage
    /\ result = 0
    /\ log = <<>>

\* time passes
Tick ==
    /\ now < MaxTime
    /\ now' = now + 1
    /\ UNCHANGED <<jobs_table, status_table, updater_vars, lambda_vars, prev_job, applied>>

----------------------------------------------------------------------------
(* update_job_status, one invocation per process *)

\* lines 8-70: accumulate the expression; with nothing accumulated return
Build(p, Args) ==
    /\ upc[p] = "start"
    /\ \E a \in Args :
        /\ uargs' = [uargs EXCEPT ![p] = a]
        /\ ukwargs' = [ukwargs EXCEPT ![p] = update_expression_parts(a, now)]
        /\ utime' = [utime EXCEPT ![p] = now]
        /\ IF DOMAIN update_expression_parts(a, now) # {}
           THEN upc' = [upc EXCEPT ![p] = "call"] /\ UNCHANGED uresult
           ELSE upc' = [upc EXCEPT ![p] = "done"]
                /\ uresult' = [uresult EXCEPT ![p] = "ok"]
    /\ UNCHANGED <<now, jobs_table, status_table, ucalls, lambda_vars, prev_job, applied>>

\* lines 71-82: the store applies the whole expression in one step
UpdateItemOk(p) ==
    /\ upc[p] = "call"
    /\ jobs_table' = update_item(jobs_table, ukwargs[p])
    /\ prev_job' = jobs_table
    /\ applied' = Append(applied, [kind |-> "update_job_status", proc |-> p,
                                   args |-> uargs[p], time |-> utime[p]])
    /\ ucalls' = [ucalls EXCEPT ![p] = @ + 1]
    /\ uresult' = [uresult EXCEPT ![p] = "ok"]
    /\ upc' = [upc EXCEPT ![p] = "done"]
    /\ UNCHANGED <<now, status_table, uargs, ukwargs, utime, lambda_vars>>

\* lines 81-85: the store refuses the update, nothing is applied, the error is re-raised
UpdateItemRaise(p) ==
    /\ upc[p] = "call"
    /\ ucalls' = [ucalls EXCEPT ![p] = @ + 1]
    /\ uresult' = [uresult EXCEPT ![p] = "raised"]
    /\ upc' = [upc EXCEPT ![p] = "done"]
    /\ UNCHANGED <<now, jobs_table, status_table, uargs, ukwargs, utime, lambda_vars,
                   prev_job, applied>>

----------------------------------------------------------------------------
(* lambda_handler, one invocation *)

Event(e) == [idx |-> idx, event |-> e]

\* the runtime invokes the handler with a batch of records
Invoke ==
    /\ lpc = "idle"
    /\ \E n \in 0..MaxBatch : nrecords' = n
    /\ lpc' = "loop"
    /\ UNCHANGED <<now, jobs_table, status_table, updater_vars, idx, record, message,
                   result, log, prev_job, applied>>

\* lines 25, 31-33: a record of another source, or a message without jobId
SkipRecord(Recs) ==
    /\ lpc = "loop" /\ idx < nrecords
    /\ \E r \in Recs :
        /\ classify(r) \in {"skip_source", "skip_no_job_id"}
        /\ record' = r
        /\ log' = Append(log, Event(classify(r)))
    /\ idx' = idx + 1
    /\ UNCHANGED <<now, jobs_table, status_table, updater_vars, lpc, nrecords, message,
                   result, prev_job, applied>>

\* lines 25-26, 48-53: reading the record raises
RaiseRecord(Recs) ==
    /\ lpc = "loop" /\ idx < nrecords
    /\ \E r \in Recs : classify(r) = "raise" /\ record' = r
    /\ log' = Append(log, Event("raise"))
    /\ result' = StatusCodeError
    /\ lpc' = "done"
    /\ UNCHANGED <<now, jobs_table, status_table, updater_vars, nrecords, idx, message,
                   prev_job, applied>>

\* lines 26-35: a message with a jobId
BeginRecord(Recs) ==
    /\ lpc = "loop" /\ idx < nrecords
    /\ \E r \in Recs :
        /\ classify(r) = "process"
        /\ record' = r
        /\ message' = r.Message[1]
    /\ log' = Append(log, Event("begin"))
    /\ lpc' = StepAfter("begin")
    /\ UNCHANGED <<now, jobs_table, status_table, updater_vars, nrecords, idx, result,
                   prev_job, applied>>

\* lines 36, 55-120: update_job_record, the store applies the expression
UpdateJobRecordOk ==
    /\ lpc = "job"
    /\ IF DOMAIN job_record_parts(message, now) # {}
       THEN /\ jobs_table' = update_item(jobs_table, job_record_parts(message, now))
            /\ prev_job' = jobs_table
            /\ applied' = Append(applied, [kind |-> "update_job_record", proc |-> 0,
                                           args |-> NoArgs, time |-> now])
            /\ log' = Append(log, Event("job_ok"))
       ELSE UNCHANGED <<jobs_table, prev_job, applied, log>>
    /\ lpc' = StepAfter("job")
    /\ idx' = IF StepAfter("job") = "loop" THEN idx + 1 ELSE idx
    /\ UNCHANGED <<now, status_table, updater_vars, nrecords, record, message, result>>

\* lines 115-120, 48-53: the store refuses the update
UpdateJobRecordRaise ==
    /\ lpc = "job"
    /\ DOMAIN job_record_parts(message, now) # {}
    /\ log' = Append(log, Event("job_raise"))
    /\ result' = StatusCodeError
    /\ lpc' = "done"
    /\ UNCHANGED <<now, jobs_table, status_table, updater_vars, nrecords, record, idx, message,
                   prev_job, applied>>

\* lines 39, 122-131: update_status_record returns without a write
UpdateStatusRecordSkip ==
    /\ lpc = "status"
    /\ ~(Truthy(message.jobId) /\ Truthy(project_id(message)))
    /\ log' = Append(log, Event("status_skip"))
    /\ lpc' = StepAfter("status")
    /\ idx' = IF StepAfter("status") = "loop" THEN idx + 1 ELSE idx
    /\ UNCHANGED <<now, jobs_table, status_table, updater_vars, nrecords, record, message,
                   result, prev_job, applied>>

\* lines 39, 122-158: update_status_record puts the item
UpdateStatusRecordOk ==
    /\ lpc = "status"
    /\ Truthy(message.jobId) /\ Truthy(project_id(message))
    /\ status_table' = put_item(status_table, status_record(message, now))
    /\ log' = Append(log, Event("status_ok"))
    /\ lpc' = StepAfter("status")
    /\ idx' = IF StepAfter("status") = "loop" THEN idx + 1 ELSE idx
    /\ UNCHANGED <<now, jobs_table, updater_vars, nrecords, record, message, result, prev_job,
                   applied>>

\* lines 158, 48-53: the store refuses the put
UpdateStatusRecordRaise ==
    /\ lpc = "status"
    /\ Truthy(message.jobId) /\ Truthy(project_id(message))
    /\ log' = Append(log, Event("status_raise"))
    /\ result' = StatusCodeError
    /\ lpc' = "done"
    /\ UNCHANGED <<now, jobs_table, status_table, updater_vars, nrecords, record, idx, message,
                   prev_job, applied>>

\* lines 43-46: every record was handled
ReturnOk ==
    /\ lpc = "loop" /\ idx = nrecords
    /\ result' = StatusCodeOk
    /\ lpc' = "done"
    /\ UNCHANGED <<now, jobs_table, status_table, updater_vars, nrecords, record, idx, message,
                   log, prev_job, applied>>

----------------------------------------------------------------------------
(* Specifications *)

UpdaterStep(p, Args) == Build(p, Args) \/ UpdateItemOk(p) \/ UpdateItemRaise(p)

HandlerStep(Recs) ==
    \/ Invoke
    \/ SkipRecord(Recs)
    \/ RaiseRecord(Recs)
    \/ BeginRecord(Recs)
    \/ UpdateJobRecordOk
    \/ UpdateJobRecordRaise
    \/ UpdateStatusRecordSkip
    \/ UpdateStatusRecordOk
    \/ UpdateStatusRecordRaise
    \/ ReturnOk

\* one invocation of the status updater, over every combination of arguments
UpdaterNext == Tick \/ UpdaterStep(1, AllArgs)
SpecUpdater == Init /\ [][UpdaterNext]_vars

\* uncoordinated invocations of the status updater on the same job
ConcurrentNext == Tick \/ \E p \in Updaters : UpdaterStep(p, FewArgs)
SpecConcurrent == Init /\ [][ConcurrentNext]_vars

\* one invocation of the completion notification handler
HandlerNext == Tick \/ HandlerStep(Records)
SpecHandler == Init /\ [][HandlerNext]_vars

\* the status updater and the handler on the same job
Next == Tick \/ UpdaterStep(1, FewArgs) \/ HandlerStep(FewRecords)
Spec == Init /\ [][Next]_vars

----------------------------------------------------------------------------
(* What the properties below speak of *)

\* the attribute paths the arguments of update_job_status ask to set
SuppliedPaths(a) ==
    {"updatedAt"}
    \cup (IF Truthy(a.status) THEN {"status"} ELSE {})
    \cup (IF a.status = Some("IN_PROGRESS") THEN {"startedAt"} ELSE {})
    \cup (IF a.status = Some("COMPLETED") THEN {"completedAt"} ELSE {})
    \cup (IF Truthy(a.step) THEN {"currentStep"} ELSE {})
    \cup (IF a.progress # None THEN {"progress"} ELSE {})
    \cup (IF Truthy(a.repo_url) THEN {"githubRepo"} ELSE {})
    \cup (IF Truthy(a.repo_name) THEN {"repoName"} ELSE {})
    \cup (IF Truthy(a.staging_url) THEN {"stagingUrl"} ELSE {})
    \cup (IF Truthy(a.production_url) THEN {"vercelUrl"} ELSE {})
    \cup (IF Truthy(a.error) THEN {"lastError"} ELSE {})

\* the value an invocation with arguments a, made at time t, gives a supplied path
SuppliedValue(a, path, t) ==
    CASE path \in {"updatedAt", "startedAt", "completedAt"} -> isoformat(t)
      [] path = "status" -> a.status[1]
      [] path = "currentStep" -> a.step[1]
      [] path = "progress" -> a.progress[1]
      [] path = "githubRepo" -> a.repo_url[1]
      [] path = "repoName" -> a.repo_name[1]
      [] path = "stagingUrl" -> a.staging_url[1]
      [] path = "vercelUrl" -> a.production_url[1]
      [] path = "lastError" ->
            json_dumps([timestamp |-> isoformat(t), message |-> a.error[1],
                        step |-> IF Truthy(a.step) THEN a.step[1] ELSE "unknown"])

OnlyInProgress == [NoArgs EXCEPT !.status = Some("IN_PROGRESS")]

\* the job record before anything here touched it
InitialRecord == IF applied[1].kind = "created_full" THEN OldRecord ELSE FreshRecord

\* the handler's last step was e, for the record it is handling
LastEventIs(e) == Len(log) > 0 /\ log[Len(log)] = [idx |-> idx, event |-> e]

LastEvent == IF Len(log) > 0 THEN log[Len(log)].event ELSE "none"

RaiseEvents == {"raise", "job_raise", "status_raise"}
SkipEvents == {"skip_source", "skip_no_job_id"}

Raised == \E i \in 1..Len(log) : log[i].event \in RaiseEvents

\* the step applies update_job_record's update to the job record
JobUpdateApplied == lpc = "job" /\ log' = Append(log, Event("job_ok"))

\* the status of a message, "completed" when it gives none
MessageStatus(m) == IF m.status # None THEN m.status[1] ELSE "completed"

\* a record of another source, or an SNS record whose payload has no jobId
Skippable(r) ==
    \/ r.EventSource # None /\ r.EventSource[1] # "aws:sns"
    \/ /\ r.EventSource = Some("aws:sns")
       /\ r.Message # None
       /\ ~Truthy(r.Message[1].jobId)

----------------------------------------------------------------------------
(* C1 *)

\* C1 (as claimed): an invocation of update_job_status with none of the
\* optional fields makes no store update call and succeeds; with at least one
\* field it makes exactly one store update call.
C1_NoFieldsNoStoreCall ==
    \A p \in Updaters :
        upc[p] = "done" =>
            IF uargs[p] = NoArgs
            THEN ucalls[p] = 0 /\ uresult[p] = "ok"
            ELSE ucalls[p] = 1

\* C1 (amended): every invocation of update_job_status makes exactly one
\* store update call, whatever optional fields it is given; with none of them
\* the call sets updatedAt and nothing else.
C1_AlwaysOneStoreCall ==
    \A p \in Updaters :
        /\ upc[p] = "done" => ucalls[p] = 1
        /\ upc[p] # "done" => ucalls[p] = 0
        /\ (upc[p] # "start" /\ uargs[p] = NoArgs) => DOMAIN ukwargs[p] = {"updatedAt"}

C1_Witness ==
    /\ upc[1] = "done" /\ uargs[1] = NoArgs /\ ucalls[1] = 1 /\ uresult[1] = "ok"
    /\ jobs_table["updatedAt"] = Some(isoformat(utime[1]))

----------------------------------------------------------------------------
(* C2 *)

\* C2: for every subset of the optional fields, the one store update of
\* update_job_status sets exactly the paths of the supplied fields, startedAt
\* only with status IN_PROGRESS, completedAt only with status COMPLETED, and
\* updatedAt, and leaves every other attribute of the job record as it was;
\* with only status=IN_PROGRESS it touches exactly status, startedAt, updatedAt.
C2_TouchesExactlySuppliedPaths ==
    /\ upc[1] # "start" => DOMAIN ukwargs[1] = SuppliedPaths(uargs[1])
    /\ (upc[1] = "done" /\ uresult[1] = "ok" /\ ucalls[1] = 1) =>
        /\ \A path \in Attrs :
            IF path \in SuppliedPaths(uargs[1])
            THEN jobs_table[path] = Some(SuppliedValue(uargs[1], path, utime[1]))
            ELSE jobs_table[path] = prev_job[path]
        /\ uargs[1] = OnlyInProgress =>
            jobs_table = [prev_job EXCEPT !["status"] = Some("IN_PROGRESS"),
                                          !["startedAt"] = Some(isoformat(utime[1])),
                                          !["updatedAt"] = Some(isoformat(utime[1]))]

C2_Witness ==
    /\ upc[1] = "done" /\ uresult[1] = "ok" /\ uargs[1] = OnlyInProgress
    /\ prev_job = OldRecord
    /\ jobs_table["startedAt"] = Some(isoformat(utime[1]))
    /\ jobs_table["completedAt"] = Some(isoformat(0))

----------------------------------------------------------------------------
(* C3 *)

\* C3 (as claimed): after any sequence of updates of the job record by
\* update_job_status and update_job_record, updatedAt is the time of the most
\* recent of them.
C3_UpdatedAtIsLastMutation ==
    jobs_table["updatedAt"] = Some(isoformat(applied[Len(applied)].time))

----------------------------------------------------------------------------
(* C4 *)

\* C4 (as claimed): once update_job_record has applied a message with status
\* "completed", the job record has status COMPLETED, progress 100, currentStep
\* COMPLETED, a completed-at timestamp and each URL the message supplies.
C4_CompletedMessageSetsRecord ==
    (lpc = "status" /\ LastEventIs("job_ok") /\ message.status = Some("completed")) =>
        /\ jobs_table["status"] = Some("COMPLETED")
        /\ jobs_table["progress"] = Some(100)
        /\ jobs_table["currentStep"] = Some("COMPLETED")
        /\ jobs_table["timestamps.completedAt"]
                = Some(isoformat(applied[Len(applied)].time))
        /\ Truthy(message.repoUrl) => jobs_table["urls.codeRepository"] = message.repoUrl
        /\ Truthy(message.stagingUrl) => jobs_table["urls.staging"] = message.stagingUrl
        /\ Truthy(message.productionUrl) =>
                jobs_table["urls.production"] = message.productionUrl

----------------------------------------------------------------------------
(* C5 *)

\* C5: over any sequence of completion notifications the errors list only
\* grows at its end: an applied message with status "failed" and an error
\* message appends the one entry {timestamp: now, message, step: the supplied
\* currentStep or "unknown"}, creating the list if absent, and every other
\* step leaves the list as it is.
C5_ErrorsAppendOnly ==
    [][LET old == IF jobs_table["errors"] = None THEN <<>> ELSE jobs_table["errors"][1]
           entry == [timestamp |-> isoformat(now),
                     message |-> message.error[1],
                     step |-> IF message.currentStep # None
                              THEN message.currentStep[1] ELSE "unknown"]
       IN  IF JobUpdateApplied /\ MessageStatus(message) = "failed"
                /\ Truthy(message.error)
           THEN jobs_table'["errors"] = Some(Append(old, entry))
           ELSE jobs_table'["errors"] = jobs_table["errors"]]_vars

C5_Witness ==
    /\ LastEventIs("job_ok") /\ idx = 1
    /\ MessageStatus(message) = "failed" /\ message.currentStep = None
    /\ jobs_table["errors"] # None
    /\ Len(jobs_table["errors"][1]) = 3
    /\ jobs_table["errors"][1][1] = OldRecord["errors"][1][1]
    /\ jobs_table["errors"][1][3].step = "unknown"

----------------------------------------------------------------------------
(* C6 *)

\* C6: lambda_handler returns 500 exactly when the handling of some record
\* raised and 200 only when none did and every record was handled; the raise
\* ends the invocation, so no later record is handled, and what earlier
\* records wrote to the tables stays written.
C6_BatchFailsAsOneUnit ==
    /\ [](/\ result \in {0, 200, 500}
          /\ result = 500 <=> Raised
          /\ result = 200 => (lpc = "done" /\ ~Raised /\ idx = nrecords)
          /\ Raised => /\ lpc = "done"
                       /\ log[Len(log)].event \in RaiseEvents
                       /\ log[Len(log)].idx = idx
                       /\ \A i \in 1..Len(log) : log[i].idx <= idx)
    /\ [][(result' # 0) =>
            /\ jobs_table' = jobs_table
            /\ status_table' = status_table
            /\ (result # 0 => log' = log /\ idx' = idx)]_vars

C6_Witness ==
    /\ result = 500 /\ idx = 1 /\ nrecords > 1
    /\ \E i \in 1..Len(log) : log[i] = [idx |-> 0, event |-> "status_ok"]
    /\ jobs_table # InitialRecord

----------------------------------------------------------------------------
(* C7 *)

----------------------------------------------------------------------------
(* C8 *)

\* C8: for each message the job record is updated before the status record
\* is put, and the two writes are separate: the status table is written only
\* right after the job record update of the same message succeeded; a failed
\* job record update ends the invocation with no status record written, and a
\* failed put leaves the job record updated and the status table as it was.
C8_JobRecordBeforeStatusRecord ==
    [][/\ (status_table' # status_table \/ log' = Append(log, Event("status_ok")))
            => LastEventIs("job_ok")
       /\ jobs_table' # jobs_table => LastEventIs("begin")
       /\ log' = Append(log, Event("job_raise")) =>
            (jobs_table' = jobs_table /\ status_table' = status_table /\ lpc' = "done")
       /\ log' = Append(log, Event("status_raise")) =>
            /\ LastEventIs("job_ok")
            /\ jobs_table' = jobs_table /\ status_table' = status_table
            /\ lpc' = "done"
       /\ lpc = "done" => (jobs_table' = jobs_table /\ status_table' = status_table)]_vars

C8_Witness ==
    /\ result = 500 /\ LastEventIs("status_raise")
    /\ jobs_table # prev_job
    /\ status_table = OldItems
    /\ jobs_table["status"] = Some(MessageStatus(message))

----------------------------------------------------------------------------
(* C9 *)

\* C9 (as claimed): every message with a jobId, once both of its steps ran
\* without raising, has put one status record under its projectId, or under
\* its jobId when it has no usable projectId, and the item holds only what the
\* message and the current time give: nothing of the item it replaced.
C9_UpsertKeyedByProjectOrJob ==
    LastEvent \in {"status_ok", "status_skip"} =>
        LET key == IF Truthy(message.projectId) THEN message.projectId[1]
                   ELSE message.jobId[1]
        IN  /\ LastEvent = "status_ok"
            /\ key \in DOMAIN status_table
            /\ status_table[key].projectId = key
            /\ status_table[key].jobId = message.jobId[1]
            /\ status_table[key].status = MessageStatus(message)
            /\ status_table[key].userId
                    = (IF Truthy(message.userId) THEN message.userId ELSE None)
            /\ status_table[key].businessName
                    = (IF Truthy(message.businessName) THEN message.businessName
                       ELSE None)
            /\ \E t \in 1..now : status_table[key].ttl = t + 30 * 24 * 60 * 60

----------------------------------------------------------------------------
(* C10 *)

\* the last of the applied updates whose supplied paths (by position in
\* applied) include the path, 0 when none does
LastSupplier(supplied, path) ==
    LET S == {i \in DOMAIN supplied : path \in supplied[i]}
    IN  IF S = {} THEN 0 ELSE CHOOSE i \in S : \A j \in S : j <= i

\* C10: with uncoordinated invocations of update_job_status on one job, each
\* applied as one atomic update, every attribute of the job record holds the
\* value of the last applied invocation that supplied it, in every
\* interleaving, and an attribute no invocation supplied holds what it held.
C10_LastWriterWinsPerField ==
    LET initial == InitialRecord
        supplied == [i \in 1..Len(applied) |->
                        IF applied[i].kind = "update_job_status"
                        THEN SuppliedPaths(applied[i].args) ELSE {}]
    IN  \A path \in Attrs :
            LET i == LastSupplier(supplied, path)
            IN  IF i = 0
                THEN jobs_table[path] = initial[path]
                ELSE jobs_table[path]
                        = Some(SuppliedValue(applied[i].args, path, applied[i].time))

C10_Witness ==
    \E i, j \in 1..Len(applied) :
        /\ i < j
        /\ applied[i].kind = "update_job_status"
        /\ applied[j].kind = "update_job_status"
        /\ applied[i].args.status = Some("COMPLETED")
        /\ applied[j].args.status = Some("IN_PROGRESS")
        /\ applied[i].time > applied[j].time
        /\ jobs_table["status"] = Some("IN_PROGRESS")
        /\ jobs_table["progress"] = Some(50)
        /\ jobs_table["completedAt"] = Some(isoformat(applied[i].time))
        /\ \A p \in Updaters : upc[p] = "done"

====
